---- MODULE Spec2Model ----
(***************************************************************************)
(* A model of the ChatVault.ai ingestion core:                             *)
(*   - the task executor   (apps/api/src/utils/tasks.py, TaskManager)      *)
(*   - the vector index    (apps/api/src/services/index_faiss.py and       *)
(*                          apps/api/src/services/index.py)                *)
(*   - the semantic chunker (apps/api/src/services/chunking.py)            *)
(*   - the upload route    (apps/api/src/routes/uploads.py)                *)
(*   - the citation extractor (apps/api/src/services/rag.py)               *)
(* Each component has its own specifications: the variables of the other   *)
(* components keep their initial value there.                              *)
(***************************************************************************)
EXTENDS Integers, Sequences, FiniteSets, TLC

VARIABLES
    \* ---- task executor -------------------------------------------------
    tasks,        \* the Task table: task id -> Task row, or NoTask
    next_id,      \* number of ids handed out so far (uuid4 is always fresh)
    coro,         \* position of each _execute_task coroutine
    sem,          \* value of TaskManager._semaphore
    escaped,      \* ids whose _execute_task coroutine ended with an exception
    pipeline,     \* history: how each task_func call ended
    cancel_ret,   \* the last cancel_task call, [id, ret, seq], or NoCall;
                  \* seq alternates, so that every call shows as a change
    \* ---- vector index --------------------------------------------------
    use_qdrant,   \* VectorIndex.use_qdrant
    loaded,       \* collection_name in vector_index_manager.collections
    index,        \* FAISSIndex.index: the stored (normalised) vectors
    metadata,     \* FAISSIndex.metadata
    index_file,   \* ./indices/<name>.faiss: [exists, data]
    meta_file,    \* ./indices/<name>_metadata.pkl: [exists, corrupt, data]
    remote,       \* the Qdrant collection: [exists, size, points]
    first_dim,    \* history: embedding_dim of the first create_collection
    last,         \* the VectorIndex call that has just returned, or NoOp
    faults,       \* how many I/O failures the environment has injected
    \* ---- chunker -------------------------------------------------------
    parsed_data,    \* the parsed document given to chunk_text
    chunk_size,     \* settings.chunk_size
    chunk_overlap,  \* settings.chunk_overlap
    result,         \* what the chunker call gave, or NoResult
    \* ---- upload route --------------------------------------------------
    files,          \* len(files) of the upload request
    handler,        \* position of upload_documents: "looping" or "returned"
    document,       \* the local variable `document` of upload_documents
    doc_status,     \* the Document table: document id -> status
    submitted_for,  \* history: the document each task was submitted for
    processed,      \* history: the document each task's pipeline worked on
    \* ---- citation extractor --------------------------------------------
    response,         \* the generated text given to extract_citations
    retrieved_chunks, \* the retrieved units given to extract_citations
    citations         \* what extract_citations returned, or NoCitations

task_vars  == <<tasks, next_id, coro, sem, escaped, pipeline, cancel_ret>>
index_vars == <<use_qdrant, loaded, index, metadata, index_file, meta_file,
                remote, first_dim, last, faults>>
chunk_vars == <<parsed_data, chunk_size, chunk_overlap, result>>
upload_vars == <<files, handler, document, doc_status, submitted_for,
                 processed>>
cite_vars == <<response, retrieved_chunks, citations>>
vars == <<tasks, next_id, coro, sem, escaped, pipeline, cancel_ret,
          use_qdrant, loaded, index, metadata, index_file, meta_file,
          remote, first_dim, last, faults,
          parsed_data, chunk_size, chunk_overlap, result,
          files, handler, document, doc_status, submitted_for, processed,
          response, retrieved_chunks, citations>>

None == "None"

(***************************************************************************)
(*                          THE TASK EXECUTOR                              *)
(***************************************************************************)

\* Bound: how many tasks are submitted in one run of the model.
MaxTasks == 3

\* Bound: how many I/O failures (of the index files, of Qdrant, of the
\* database) the environment injects in one run.
MaxFaults == 1

\* TaskManager.__init__: self._max_concurrent = 2, asyncio.Semaphore(2)
MaxConcurrent == 2

TaskIds == 1..MaxTasks

\* class TaskStatus
PENDING   == "PENDING"
RUNNING   == "RUNNING"
COMPLETED == "COMPLETED"
FAILED    == "FAILED"
CANCELLED == "CANCELLED"
TaskStatus == {PENDING, RUNNING, COMPLETED, FAILED, CANCELLED}
Terminal == {COMPLETED, FAILED, CANCELLED}

\* What a pipeline function may return, and the messages it may raise with.
Results  == {"success"}
Messages == {"parse error", "disk full"}
\* The message of an exception raised by session.get or session.commit.
DbErrors == {"database is locked"}

\* session.get(Task, task_id) returns None for a missing row
NoTask == [status |-> "ABSENT"]
Exists(t) == tasks[t] # NoTask

\* A submit that records the task as already running.
NewTaskRunning ==
    [status |-> RUNNING, created_at |-> TRUE, started_at |-> TRUE,
     completed_at |-> FALSE, result |-> None, error |-> None]

\* submit_task, lines 39-45: the row as created
NewTask ==
    [status |-> PENDING, created_at |-> TRUE, started_at |-> FALSE,
     completed_at |-> FALSE, result |-> None, error |-> None]

\* _execute_task, lines 66-67
MarkRunning(rec) ==
    [rec EXCEPT !.status = RUNNING, !.started_at = TRUE]

\* _execute_task, lines 76-78
MarkCompleted(rec, r) ==
    [rec EXCEPT !.status = COMPLETED, !.completed_at = TRUE, !.result = r]

\* A handler that marks the task FAILED and drops the exception's message.
MarkFailedNoMessage(rec, msg) ==
    [rec EXCEPT !.status = FAILED, !.completed_at = TRUE]

\* _execute_task, lines 87-89: error = str(e)
MarkFailed(rec, msg) ==
    [rec EXCEPT !.status = FAILED, !.completed_at = TRUE, !.error = msg]

\* cancel_task, lines 115-116
MarkCancelled(rec) ==
    [rec EXCEPT !.status = CANCELLED, !.completed_at = TRUE]

\* A cancel_task that refuses a task that has started.
CancellableOnlyPending(t) == Exists(t) /\ tasks[t].status = PENDING

\* cancel_task, line 112: the early return
Cancellable(t) == Exists(t) /\ tasks[t].status \in {PENDING, RUNNING}

\* An executor that starts a task without waiting for a permit.
CanAcquireAlways == TRUE

\* asyncio.Semaphore.acquire returns only when the value is positive
CanAcquire == sem > 0

\* An `async with` that gives back two permits on the way out.
ReleaseTwice(s) == s + 2

\* An `async with` that keeps the permit on the way out.
NoRelease(s) == s

\* `async with self._semaphore` (line 61): Semaphore.release on every way
\* out of the block, by return or by exception
Release(s) == s + 1

\* `if task:` guards every update of _execute_task (lines 65, 75, 86)
UpdateIfPresent(t, rec) == IF Exists(t) THEN [tasks EXCEPT ![t] = rec] ELSE tasks

NoCall == [id |-> 0, ret |-> FALSE, seq |-> 0]

TaskTypeOK ==
    /\ tasks \in [TaskIds -> {NoTask} \cup
          [status : TaskStatus, created_at : BOOLEAN, started_at : BOOLEAN,
           completed_at : BOOLEAN, result : Results \cup {None},
           error : Messages \cup DbErrors \cup {None}]]
    /\ next_id \in 0..MaxTasks
    /\ coro \in [TaskIds -> {"none", "scheduled", "in_pipeline", "returned"}]
    /\ sem \in 0..MaxConcurrent
    /\ escaped \subseteq TaskIds

TaskInit ==
    /\ tasks = [t \in TaskIds |-> NoTask]
    /\ next_id = 0
    /\ coro = [t \in TaskIds |-> "none"]
    /\ sem = MaxConcurrent
    /\ escaped = {}
    /\ pipeline = [t \in TaskIds |-> [kind |-> "none", value |-> None]]
    /\ cancel_ret = NoCall

\* submit_task: the row is committed PENDING and the coroutine is scheduled
\* with asyncio.create_task; it does not run before submit_task returns.
SubmitTask ==
    /\ next_id < MaxTasks
    /\ next_id' = next_id + 1
    /\ tasks' = [tasks EXCEPT ![next_id + 1] = NewTask]
    /\ coro' = [coro EXCEPT ![next_id + 1] = "scheduled"]
    /\ UNCHANGED <<sem, escaped, pipeline, cancel_ret>>

\* submit_task called by any caller
Submit ==
    /\ SubmitTask
    /\ UNCHANGED index_vars
    /\ UNCHANGED chunk_vars

    /\ UNCHANGED <<upload_vars, cite_vars>>
\* _execute_task up to `await task_func()`: the permit is taken and, with no
\* suspension point in between, the row (if any) is set RUNNING and committed.
Start(t) ==
    /\ coro[t] = "scheduled"
    /\ CanAcquire
    /\ sem' = sem - 1
    /\ tasks' = UpdateIfPresent(t, MarkRunning(tasks[t]))
    /\ coro' = [coro EXCEPT ![t] = "in_pipeline"]
    /\ UNCHANGED <<next_id, escaped, pipeline, cancel_ret>>
    /\ UNCHANGED index_vars
    /\ UNCHANGED chunk_vars

    /\ UNCHANGED <<upload_vars, cite_vars>>
\* task_func returns r: lines 73-79, then the `async with` releases the permit
FinishOk(t, r) ==
    /\ coro[t] = "in_pipeline"
    /\ pipeline' = [pipeline EXCEPT ![t] = [kind |-> "returned", value |-> r]]
    /\ tasks' = UpdateIfPresent(t, MarkCompleted(tasks[t], r))
    /\ sem' = Release(sem)
    /\ coro' = [coro EXCEPT ![t] = "returned"]
    /\ UNCHANGED <<next_id, escaped, cancel_ret>>
    /\ UNCHANGED index_vars
    /\ UNCHANGED chunk_vars

    /\ UNCHANGED <<upload_vars, cite_vars>>
\* task_func raises Exception(msg): the except clause, lines 81-90, then the
\* `async with` releases the permit; nothing is re-raised.
FinishFail(t, msg) ==
    /\ coro[t] = "in_pipeline"
    /\ pipeline' = [pipeline EXCEPT ![t] = [kind |-> "raised", value |-> msg]]
    /\ tasks' = UpdateIfPresent(t, MarkFailed(tasks[t], msg))
    /\ sem' = Release(sem)
    /\ coro' = [coro EXCEPT ![t] = "returned"]
    /\ UNCHANGED <<next_id, escaped, cancel_ret>>
    /\ UNCHANGED index_vars
    /\ UNCHANGED chunk_vars

    /\ UNCHANGED <<upload_vars, cite_vars>>
\* cancel_task(task_id): self._tasks is never filled (submit_task drops the
\* asyncio.Task it creates), so lines 120-122 never cancel a coroutine.
Cancel(t) ==
    /\ cancel_ret' = [id |-> t, ret |-> Cancellable(t),
                       seq |-> 1 - cancel_ret.seq]
    /\ tasks' = IF Cancellable(t)
                THEN [tasks EXCEPT ![t] = MarkCancelled(tasks[t])]
                ELSE tasks
    /\ UNCHANGED <<next_id, coro, sem, escaped, pipeline>>
    /\ UNCHANGED index_vars
    /\ UNCHANGED chunk_vars

    /\ UNCHANGED <<upload_vars, cite_vars>>
\* cleanup_old_tasks: a terminal row whose completed_at is older than the
\* cutoff is deleted (the passing of time is left to the scheduler).
Cleanup(t) ==
    /\ Exists(t)
    /\ tasks[t].status \in Terminal
    /\ tasks[t].completed_at
    /\ tasks' = [tasks EXCEPT ![t] = NoTask]
    /\ UNCHANGED <<next_id, coro, sem, escaped, pipeline, cancel_ret>>
    /\ UNCHANGED index_vars
    /\ UNCHANGED chunk_vars

    /\ UNCHANGED <<upload_vars, cite_vars>>
\* session.get or session.commit raises while the row is being set RUNNING
\* (lines 64-68): the pipeline function is not called, the except clause
\* runs. Either it records the failure, or its own session call raises too
\* and the exception leaves the coroutine. No suspension point lies between
\* the acquire and the release. A failed commit leaves the row as it was.
StartFails(t, e, handled) ==
    /\ faults < MaxFaults
    /\ faults' = faults + 1
    /\ coro[t] = "scheduled"
    /\ CanAcquire
    /\ Exists(t)
    /\ sem' = Release(sem - 1)
    /\ tasks' = IF handled THEN [tasks EXCEPT ![t] = MarkFailed(tasks[t], e)]
                           ELSE tasks
    /\ escaped' = IF handled THEN escaped ELSE escaped \cup {t}
    /\ coro' = [coro EXCEPT ![t] = "returned"]
    /\ UNCHANGED <<next_id, pipeline, cancel_ret>>
    /\ UNCHANGED <<use_qdrant, loaded, index, metadata, index_file,
                   meta_file, remote, first_dim, last>>
    /\ UNCHANGED chunk_vars
    /\ UNCHANGED <<upload_vars, cite_vars>>

\* task_func returns r and the commit of COMPLETED raises (lines 74-79):
\* the except clause runs, and records the failure or raises in turn.
FinishOkRecordFails(t, r, e, handled) ==
    /\ faults < MaxFaults
    /\ faults' = faults + 1
    /\ coro[t] = "in_pipeline"
    /\ Exists(t)
    /\ pipeline' = [pipeline EXCEPT ![t] = [kind |-> "returned", value |-> r]]
    /\ tasks' = IF handled THEN [tasks EXCEPT ![t] = MarkFailed(tasks[t], e)]
                           ELSE tasks
    /\ escaped' = IF handled THEN escaped ELSE escaped \cup {t}
    /\ sem' = Release(sem)
    /\ coro' = [coro EXCEPT ![t] = "returned"]
    /\ UNCHANGED <<next_id, cancel_ret>>
    /\ UNCHANGED <<use_qdrant, loaded, index, metadata, index_file,
                   meta_file, remote, first_dim, last>>
    /\ UNCHANGED chunk_vars
    /\ UNCHANGED <<upload_vars, cite_vars>>

\* task_func raises and a session call of the except clause (lines 85-90)
\* raises: nothing catches it, the exception leaves the coroutine through
\* the `async with`.
FinishFailRecordFails(t, msg) ==
    /\ faults < MaxFaults
    /\ faults' = faults + 1
    /\ coro[t] = "in_pipeline"
    /\ Exists(t)
    /\ pipeline' = [pipeline EXCEPT ![t] = [kind |-> "raised", value |-> msg]]
    /\ escaped' = escaped \cup {t}
    /\ sem' = Release(sem)
    /\ coro' = [coro EXCEPT ![t] = "returned"]
    /\ UNCHANGED <<tasks, next_id, cancel_ret>>
    /\ UNCHANGED <<use_qdrant, loaded, index, metadata, index_file,
                   meta_file, remote, first_dim, last>>
    /\ UNCHANGED chunk_vars
    /\ UNCHANGED <<upload_vars, cite_vars>>

TaskNext ==
    \/ Submit
    \/ \E t \in TaskIds : Start(t)
    \/ \E t \in TaskIds, r \in Results : FinishOk(t, r)
    \/ \E t \in TaskIds, msg \in Messages : FinishFail(t, msg)
    \/ \E t \in TaskIds : Cancel(t)
    \/ \E t \in TaskIds : Cleanup(t)

\* The executor with a database that may fail, as often as the environment's
\* budget of failures allows.
TaskFaultNext ==
    \/ Submit
    \/ \E t \in TaskIds : Start(t)
    \/ \E t \in TaskIds, r \in Results : FinishOk(t, r)
    \/ \E t \in TaskIds, msg \in Messages : FinishFail(t, msg)
    \/ \E t \in TaskIds : Cancel(t)
    \/ \E t \in TaskIds : Cleanup(t)
    \/ \E t \in TaskIds, e \in DbErrors, handled \in BOOLEAN :
          StartFails(t, e, handled)
    \/ \E t \in TaskIds, r \in Results, e \in DbErrors, handled \in BOOLEAN :
          FinishOkRecordFails(t, r, e, handled)
    \/ \E t \in TaskIds, msg \in Messages : FinishFailRecordFails(t, msg)

(***************************************************************************)
(*                           THE VECTOR INDEX                              *)
(* One collection (one bot) is modelled: collections share nothing, each   *)
(* has its own FAISSIndex object, its own two files and its own Qdrant     *)
(* collection.                                                             *)
(***************************************************************************)

\* Bounds: units stored in the collection, units per add_chunks call, top_k.
MaxUnits == 3
MaxBatch == 2
MaxTopK == 3

\* _create_new_index: faiss.IndexFlatIP(384)
FaissDim == 384
\* Another embedding length (the spec's scenario uses 3-dimensional vectors).
SmallDim == 3
EmbeddingDims == {SmallDim, FaissDim}

\* A vector of the model is (x, y, 0, ..., 0), of length len, written
\* [len |-> n, vec |-> <<x, y>>]; the vectors used lie on an axis.
Abs(x) == IF x < 0 THEN -x ELSE x
L2Norm(v) ==
    CHOOSE n \in 0..(Abs(v[1]) + Abs(v[2])) : n * n = v[1] * v[1] + v[2] * v[2]

\* faiss.normalize_L2: each row divided by its L2 norm
NormalizeL2(v) ==
    LET n == L2Norm(v) IN IF n = 0 THEN v ELSE <<v[1] \div n, v[2] \div n>>

\* IndexFlatIP: the inner product
Dot(a, b) == a[1] * b[1] + a[2] * b[2]

\* A chunk as the embedder hands it to add_chunks. loc = None stands for a
\* chunk dict without the 'location' key.
MkChunk(id, doc, v, n, loc) ==
    [chunk_id |-> id, text |-> <<"text of", id>>, document_id |-> doc,
     embedding |-> [len |-> n, vec |-> v], location |-> loc]

Chunks ==
    { MkChunk("chunk_1_1_0", 1, <<1, 0>>,  FaissDim, "page 1"),
      MkChunk("chunk_1_1_1", 1, <<2, 0>>,  FaissDim, "page 1"),
      MkChunk("chunk_2_1_0", 2, <<0, 1>>,  FaissDim, "page 1"),
      MkChunk("chunk_1_1_2", 1, <<1, 0>>,  SmallDim, "page 1"),
      MkChunk("chunk_2_1_1", 2, <<-1, 0>>, FaissDim, None) }

Batches == UNION { [1..n -> Chunks] : n \in 0..MaxBatch }

Queries ==
    { [len |-> FaissDim, vec |-> <<1, 0>>],
      [len |-> FaissDim, vec |-> <<0, 3>>],
      [len |-> SmallDim, vec |-> <<1, 0>>] }

\* filter_document_ids: None, or a list of document ids
NoFilter == [given |-> FALSE, ids |-> {}]
Filters == {NoFilter} \cup { [given |-> TRUE, ids |-> s] : s \in SUBSET {1, 2} }

NoFile == [exists |-> FALSE, corrupt |-> FALSE, data |-> <<>>]
File(d) == [exists |-> TRUE, corrupt |-> FALSE, data |-> d]
Corrupt == [exists |-> TRUE, corrupt |-> TRUE, data |-> <<>>]

NoRemote == [exists |-> FALSE, size |-> 0, points |-> {}]

\* add_chunks, lines 68-74: the metadata entry of a chunk
MetaOf(c) ==
    [chunk_id |-> c.chunk_id, text |-> c.text, document_id |-> c.document_id,
     location |-> c.location]

\* index.add_chunks, lines 80-89: the Qdrant point of a chunk
PointOf(c) ==
    [id |-> c.chunk_id, vector |-> c.embedding,
     payload |-> [text |-> c.text, document_id |-> c.document_id,
                  location |-> c.location]]

SeqMap(Op(_), s) == [i \in 1..Len(s) |-> Op(s[i])]

\* _load_or_create_index: both files present and readable, or a new, empty
\* index; an unreadable metadata file raises after the index was read, and
\* the except clause creates a new index.
LoadOrCreate ==
    IF index_file.exists /\ meta_file.exists /\ ~meta_file.corrupt
    THEN <<index_file.data, meta_file.data>>
    ELSE <<<<>>, <<>>>>

\* VectorIndexManager.get_collection: the registered FAISSIndex, or a new one
\* built from the files. <<vectors, metadata>>.
GetCollection == IF loaded THEN <<index, metadata>> ELSE LoadOrCreate

(***************************************************************************)
(* Nearest-neighbour ranking. sc maps each candidate to its score. The     *)
(* result is every sequence a top-n search may return: n candidates (or    *)
(* all, if fewer) in non-increasing score order; the order among equal     *)
(* scores is the library's choice.                                         *)
(***************************************************************************)
\* A ranking that gives the n candidates of lowest score, lowest first.
RECURSIVE BottomOrders(_, _, _)
BottomOrders(S, sc, n) ==
    IF n = 0 \/ S = {}
    THEN {<<>>}
    ELSE UNION { { <<x>> \o rest : rest \in BottomOrders(S \ {x}, sc, n - 1) } :
                 x \in { y \in S : \A z \in S : sc[y] <= sc[z] } }

RECURSIVE TopOrders(_, _, _)
TopOrders(S, sc, n) ==
    IF n = 0 \/ S = {}
    THEN {<<>>}
    ELSE UNION { { <<x>> \o rest : rest \in TopOrders(S \ {x}, sc, n - 1) } :
                 x \in { y \in S : \A z \in S : sc[z] <= sc[y] } }

Min(a, b) == IF a < b THEN a ELSE b

\* `if filter_document_ids and ...`: None and the empty list are both falsy
FilterActive(f) == f.given /\ f.ids # {}

\* FAISSIndex.search, lines 102-128: the loop over the raw neighbours.
\* order: positions (1-based) in score order; sc: their scores.
RECURSIVE ScanHits(_, _, _, _, _, _, _, _)
ScanHits(order, sc, meta, i, results, seen_docs, top_k, f) ==
    IF i > Len(order) \/ Len(results) >= top_k
    THEN results
    ELSE LET idx == order[i] IN
         IF idx > Len(meta)
         THEN ScanHits(order, sc, meta, i + 1, results, seen_docs, top_k, f)
         ELSE LET m == meta[idx] IN
              IF FilterActive(f) /\ m.document_id \notin f.ids
              THEN ScanHits(order, sc, meta, i + 1, results, seen_docs, top_k, f)
              ELSE IF m.document_id \in seen_docs
              THEN ScanHits(order, sc, meta, i + 1, results, seen_docs, top_k, f)
              ELSE ScanHits(order, sc, meta, i + 1,
                            Append(results,
                                   [chunk_id |-> m.chunk_id, score |-> sc[idx],
                                    text |-> m.text,
                                    document_id |-> m.document_id,
                                    location |-> m.location]),
                            seen_docs \cup {m.document_id}, top_k, f)

\* The number of raw neighbours asked of FAISS, line 97
RawK(top_k, ntotal) == Min(top_k * 2, ntotal)

\* FAISSIndex.search on the collection coll = <<vectors, metadata>>: the set
\* of result lists it may return. A query of another length than the index
\* raises inside faiss and the except clause returns [].
FaissSearch(coll, q, top_k, f) ==
    LET vecs == coll[1]
        ntotal == Len(vecs)
        qn == NormalizeL2(q.vec)
        sc == [i \in 1..ntotal |-> Dot(vecs[i], qn)]
    IN  IF ntotal = 0 \/ q.len # FaissDim
        THEN {<<>>}
        ELSE { ScanHits(order, sc, coll[2], 1, <<>>, {}, top_k, f) :
               order \in TopOrders(1..ntotal, sc, RawK(top_k, ntotal)) }

\* VectorIndex.search, lines 116-124: must = one condition per document id,
\* so a point passes when its document_id equals every id of the list.
QdrantFilterPass(p, f) ==
    ~FilterActive(f) \/ \A d \in f.ids : p.payload.document_id = d

\* qdrant_client.search: the best `limit` points by cosine similarity
QdrantSearch(q, limit, f) ==
    LET cand == { p \in remote.points : QdrantFilterPass(p, f) }
        qn == NormalizeL2(q.vec)
        sc == [p \in cand |-> Dot(NormalizeL2(p.vector.vec), qn)]
    IN  { [i \in 1..Len(o) |->
             [chunk_id |-> o[i].id, score |-> sc[o[i]],
              text |-> o[i].payload.text,
              document_id |-> o[i].payload.document_id,
              location |-> o[i].payload.location]] :
          o \in TopOrders(cand, sc, limit) }

\* VectorIndex.search, lines 135-147: a Qdrant hit is appended unless a hit
\* with the same chunk_id is already in the list.
RECURSIVE MergeHits(_, _, _)
MergeHits(results, qhits, i) ==
    IF i > Len(qhits)
    THEN results
    ELSE IF \E j \in 1..Len(results) : results[j].chunk_id = qhits[i].chunk_id
    THEN MergeHits(results, qhits, i + 1)
    ELSE MergeHits(Append(results, qhits[i]), qhits, i + 1)

\* faiss_results[:top_k], line 152
Truncate(s, k) == SubSeq(s, 1, Min(k, Len(s)))

\* A search that returns nothing when the Qdrant call raises.
VectorSearchFailsWithQdrant(local, q, top_k, f, qdrant_down) ==
    IF Len(local) >= top_k
    THEN {local}
    ELSE IF use_qdrant /\ qdrant_down
    THEN {<<>>}
    ELSE IF use_qdrant /\ remote.exists /\ q.len = remote.size
    THEN { Truncate(MergeHits(local, qh, 1), top_k) :
           qh \in QdrantSearch(q, top_k - Len(local), f) }
    ELSE {Truncate(local, top_k)}

\* VectorIndex.search after the FAISS search returned `local`: the result
\* lists it may return. qdrant_down: the Qdrant call raises.
VectorSearch(local, q, top_k, f, qdrant_down) ==
    IF Len(local) >= top_k
    THEN {local}
    ELSE IF use_qdrant /\ ~qdrant_down /\ remote.exists /\ q.len = remote.size
    THEN { Truncate(MergeHits(local, qh, 1), top_k) :
           qh \in QdrantSearch(q, top_k - Len(local), f) }
    ELSE {Truncate(local, top_k)}

(***************************************************************************)
(* The operations of VectorIndex. Each call sets `last` to the call and    *)
(* its outcome; Return hands the outcome to the caller, and only then is   *)
(* the next call made (the index is used from synchronous code).           *)
(***************************************************************************)
NoOp ==
    [op |-> "none", ok |-> TRUE, dim |-> 0, lens |-> {}, complete |-> TRUE,
     q |-> [len |-> 0, vec |-> <<0, 0>>], top_k |-> 0, filter |-> NoFilter,
     hits |-> <<>>, local |-> <<>>, down |-> FALSE, save |-> "none"]

Idle == last = NoOp

\* What writing or removing the two files may do; the failures are injected
\* while the budget lasts.
SaveOutcomes ==
    IF faults < MaxFaults
    THEN {"saved", "write_index_fails", "open_metadata_fails",
          "dump_metadata_fails"}
    ELSE {"saved"}
RemoveOutcomes ==
    IF faults < MaxFaults /\ loaded
    THEN {"removed", "remove_index_fails", "remove_metadata_fails"}
    ELSE {"removed"}

\* Whether the Qdrant call of this step raises (connection, timeout).
QdrantDown == IF use_qdrant /\ faults < MaxFaults THEN BOOLEAN ELSE {FALSE}

Fault(b) == IF b THEN 1 ELSE 0

\* _save_index: write_index, then open(..., 'wb') and pickle.dump; any
\* exception is logged and swallowed. <<index file, metadata file>> after.
SaveIndex(vecs, meta, outcome) ==
    CASE outcome = "saved" -> <<File(vecs), File(meta)>>
      [] outcome = "write_index_fails" -> <<index_file, meta_file>>
      [] outcome = "open_metadata_fails" -> <<File(vecs), meta_file>>
      [] outcome = "dump_metadata_fails" -> <<File(vecs), Corrupt>>

\* An index that takes rows of any length.
DimensionsNotChecked(batch) == TRUE

\* FAISSIndex.add_chunks, lines 58-64: np.array of the embeddings and
\* index.add, which asserts the row length against the index dimension.
DimensionsAccepted(batch) ==
    \A i \in 1..Len(batch) : batch[i].embedding.len = FaissDim

\* The first chunk without a 'location' key (KeyError at line 72), or 0.
FirstIncomplete(batch) ==
    IF \A i \in 1..Len(batch) : batch[i].location # None
    THEN 0
    ELSE CHOOSE i \in 1..Len(batch) :
            /\ batch[i].location = None
            /\ \A j \in 1..(i - 1) : batch[j].location # None

\* qdrant_client.upsert: points replace the stored points of the same id; a
\* missing collection or a vector of another size than the collection's is
\* an error, caught and logged by add_chunks.
QdrantUpsert(batch, down) ==
    IF use_qdrant /\ ~down /\ remote.exists /\ Len(batch) > 0
       /\ \A i \in 1..Len(batch) : batch[i].embedding.len = remote.size
    THEN [remote EXCEPT !.points =
            { p \in remote.points :
                \A i \in 1..Len(batch) : p.id # batch[i].chunk_id }
            \cup { PointOf(batch[i]) : i \in 1..Len(batch) }]
    ELSE remote

\* qdrant_client.recreate_collection: delete the collection, create it empty
QdrantRecreate(dim, down) ==
    IF use_qdrant /\ ~down
    THEN [exists |-> TRUE, size |-> dim, points |-> {}]
    ELSE remote

IndexInit ==
    /\ use_qdrant \in BOOLEAN
    /\ loaded = FALSE
    /\ index = <<>>
    /\ metadata = <<>>
    /\ index_file = NoFile
    /\ meta_file = NoFile
    /\ remote = NoRemote
    /\ first_dim = 0
    /\ last = NoOp
    /\ faults = 0

\* VectorIndex.create_collection(collection_name, embedding_dim)
CreateCollection(dim) ==
    /\ Idle
    /\ loaded' = TRUE
    /\ index' = GetCollection[1]
    /\ metadata' = GetCollection[2]
    /\ \E down \in QdrantDown :
          /\ remote' = QdrantRecreate(dim, down)
          /\ faults' = faults + Fault(down)
          /\ last' = [NoOp EXCEPT !.op = "create", !.dim = dim, !.down = down]
    /\ first_dim' = IF first_dim = 0 THEN dim ELSE first_dim
    /\ UNCHANGED <<use_qdrant, index_file, meta_file>>
    /\ UNCHANGED task_vars
    /\ UNCHANGED chunk_vars

    /\ UNCHANGED <<upload_vars, cite_vars>>
\* VectorIndex.add_chunks(collection_name, chunks)
AddChunks(batch) ==
    LET coll == GetCollection
        lens == { batch[i].embedding.len : i \in 1..Len(batch) }
        k == FirstIncomplete(batch)
        rec == [NoOp EXCEPT !.op = "add", !.lens = lens, !.complete = (k = 0)]
        vecs == coll[1] \o SeqMap(LAMBDA c : NormalizeL2(c.embedding.vec), batch)
    IN
    /\ Idle
    /\ Len(coll[1]) + Len(batch) <= MaxUnits
    /\ loaded' = TRUE
    /\ UNCHANGED <<use_qdrant, first_dim>>
    /\ UNCHANGED task_vars
    /\ UNCHANGED chunk_vars
    /\ UNCHANGED <<upload_vars, cite_vars>>
    /\ IF batch = <<>>
       THEN \* `if not chunks: return`; the Qdrant part upserts nothing
            /\ index' = coll[1] /\ metadata' = coll[2]
            /\ UNCHANGED <<index_file, meta_file, remote, faults>>
            /\ last' = rec
       ELSE IF ~DimensionsAccepted(batch)
       THEN \* raised before anything was stored
            /\ index' = coll[1] /\ metadata' = coll[2]
            /\ UNCHANGED <<index_file, meta_file, remote, faults>>
            /\ last' = [rec EXCEPT !.ok = FALSE]
       ELSE IF k > 0
       THEN \* the vectors are in, the metadata loop raised at chunk k
            /\ index' = vecs
            /\ metadata' = coll[2] \o SeqMap(MetaOf, SubSeq(batch, 1, k - 1))
            /\ UNCHANGED <<index_file, meta_file, remote, faults>>
            /\ last' = [rec EXCEPT !.ok = FALSE]
       ELSE /\ index' = vecs
            /\ metadata' = coll[2] \o SeqMap(MetaOf, batch)
            /\ \E save \in SaveOutcomes, down \in QdrantDown :
                  /\ faults + Fault(save # "saved") + Fault(down) <= MaxFaults
                  /\ faults' = faults + Fault(save # "saved") + Fault(down)
                  /\ index_file' = SaveIndex(index', metadata', save)[1]
                  /\ meta_file' = SaveIndex(index', metadata', save)[2]
                  /\ remote' = QdrantUpsert(batch, down)
                  /\ last' = [rec EXCEPT !.down = down, !.save = save]

\* FAISSIndex.delete_collection: os.remove of each file that exists; an
\* exception skips the rest of the try block. <<index file, metadata file>>.
RemoveFiles(outcome) ==
    CASE outcome = "removed" -> <<NoFile, NoFile>>
      [] outcome = "remove_index_fails" ->
            IF index_file.exists THEN <<index_file, meta_file>>
                                 ELSE <<NoFile, NoFile>>
      [] outcome = "remove_metadata_fails" ->
            IF meta_file.exists THEN <<NoFile, meta_file>>
                                ELSE <<NoFile, NoFile>>

\* VectorIndexManager.delete_collection: only a registered collection is
\* deleted. <<index file, metadata file>> after.
ManagerDelete(outcome) ==
    IF loaded THEN RemoveFiles(outcome) ELSE <<index_file, meta_file>>

\* VectorIndex.delete_collection(collection_name)
DeleteCollection ==
    /\ Idle
    /\ \E outcome \in RemoveOutcomes, down \in QdrantDown :
          /\ faults + Fault(outcome # "removed") + Fault(down) <= MaxFaults
          /\ faults' = faults + Fault(outcome # "removed") + Fault(down)
          /\ index_file' = ManagerDelete(outcome)[1]
          /\ meta_file' = ManagerDelete(outcome)[2]
          /\ remote' = IF use_qdrant /\ ~down THEN NoRemote ELSE remote
          /\ last' = [NoOp EXCEPT !.op = "delete", !.down = down]
    /\ loaded' = FALSE
    /\ index' = <<>>
    /\ metadata' = <<>>
    /\ first_dim' = 0
    /\ UNCHANGED use_qdrant
    /\ UNCHANGED task_vars
    /\ UNCHANGED chunk_vars

    /\ UNCHANGED <<upload_vars, cite_vars>>
\* VectorIndex.search(collection_name, query_embedding, top_k, filter)
Search(q, top_k, f) ==
    /\ Idle
    /\ loaded' = TRUE
    /\ index' = GetCollection[1]
    /\ metadata' = GetCollection[2]
    /\ \E local \in FaissSearch(GetCollection, q, top_k, f) :
       \E down \in (IF Len(local) < top_k THEN QdrantDown ELSE {FALSE}) :
       \E hits \in VectorSearch(local, q, top_k, f, down) :
          /\ faults' = faults + Fault(down)
          /\ last' = [NoOp EXCEPT !.op = "search", !.q = q, !.top_k = top_k,
                                  !.filter = f, !.hits = hits,
                                  !.local = local, !.down = down]
    /\ UNCHANGED <<use_qdrant, index_file, meta_file, remote, first_dim>>
    /\ UNCHANGED task_vars
    /\ UNCHANGED chunk_vars

    /\ UNCHANGED <<upload_vars, cite_vars>>
\* The call returns to its caller.
Return ==
    /\ ~Idle
    /\ last' = NoOp
    /\ UNCHANGED <<use_qdrant, loaded, index, metadata, index_file, meta_file,
                   remote, first_dim, faults>>
    /\ UNCHANGED task_vars
    /\ UNCHANGED chunk_vars

    /\ UNCHANGED <<upload_vars, cite_vars>>
\* The process stops and starts again: the registry of the new process is
\* empty, the files and the Qdrant collection are what they were.
Restart ==
    /\ Idle
    /\ loaded
    /\ loaded' = FALSE
    /\ index' = <<>>
    /\ metadata' = <<>>
    /\ UNCHANGED <<use_qdrant, index_file, meta_file, remote, first_dim, last,
                   faults>>
    /\ UNCHANGED task_vars
    /\ UNCHANGED chunk_vars

    /\ UNCHANGED <<upload_vars, cite_vars>>
IndexNext ==
    \/ \E dim \in EmbeddingDims : CreateCollection(dim)
    \/ \E batch \in Batches : AddChunks(batch)
    \/ DeleteCollection
    \/ \E q \in Queries, top_k \in 1..MaxTopK, f \in Filters : Search(q, top_k, f)
    \/ Return
    \/ Restart

(***************************************************************************)
(*                         THE SEMANTIC CHUNKER                            *)
(* apps/api/src/services/chunking.py, SemanticChunker. A text is a         *)
(* sequence of symbols: words (a word stands for the word with the space   *)
(* before it, each word of a document is distinct), the newline, a space,  *)
(* the sentence marks "." and "!", the hash mark of a Markdown heading,    *)
(* and the text of a special token of the tokenizer ("<|endoftext|>").     *)
(***************************************************************************)

\* Bounds: blocks (lines) per document, words per line, and the largest
\* chunk_size and chunk_overlap of the configurations tried.
MaxBlocks == 3
MaxWords == 4
MaxChunkSize == 3
MaxOverlap == 3

Sym(k, n) == [k |-> k, n |-> n]
W(n)  == Sym("w", n)
NL    == Sym("nl", 0)
SP    == Sym("sp", 0)
DOT   == Sym(".", 0)
BANG  == Sym("!", 0)
HASH  == Sym("#", 0)
EOT   == Sym("<|endoftext|>", 0)
\* the token of cl100k_base for "\n\n"
NLNL  == Sym("nlnl", 0)

IsSpace(c) == c \in {NL, SP}

\* str.strip()
RECURSIVE LStrip(_)
LStrip(s) == IF s # <<>> /\ IsSpace(Head(s)) THEN LStrip(Tail(s)) ELSE s
RECURSIVE RStrip(_)
RStrip(s) ==
    IF s # <<>> /\ IsSpace(s[Len(s)]) THEN RStrip(SubSeq(s, 1, Len(s) - 1))
    ELSE s
Strip(s) == RStrip(LStrip(s))

\* str.split('\n'): the lines of a text ("" gives one empty line)
RECURSIVE SplitLines(_, _, _)
SplitLines(s, i, cur) ==
    IF i > Len(s) THEN <<cur>>
    ELSE IF s[i] = NL THEN <<cur>> \o SplitLines(s, i + 1, <<>>)
    ELSE SplitLines(s, i + 1, Append(cur, s[i]))

\* str.split('\n\n'): cut at each "\n\n", scanning from the left
RECURSIVE SplitParagraphs(_, _, _)
SplitParagraphs(s, i, cur) ==
    IF i > Len(s) THEN <<cur>>
    ELSE IF i < Len(s) /\ s[i] = NL /\ s[i + 1] = NL
    THEN <<cur>> \o SplitParagraphs(s, i + 2, <<>>)
    ELSE SplitParagraphs(s, i + 1, Append(cur, s[i]))

\* re.split(r'[.!?]+', text): cut at each run of sentence marks
IsMark(c) == c \in {DOT, BANG}
RECURSIVE SplitSentences(_, _, _)
SplitSentences(s, i, cur) ==
    IF i > Len(s) THEN <<cur>>
    ELSE IF IsMark(s[i])
    THEN IF i > 1 /\ IsMark(s[i - 1])
         THEN SplitSentences(s, i + 1, cur)
         ELSE <<cur>> \o SplitSentences(s, i + 1, <<>>)
    ELSE SplitSentences(s, i + 1, Append(cur, s[i]))

\* '. '.join(parts)
RECURSIVE JoinSentences(_)
JoinSentences(parts) ==
    IF parts = <<>> THEN <<>>
    ELSE IF Len(parts) = 1 THEN parts[1]
    ELSE parts[1] \o <<DOT, SP>> \o JoinSentences(Tail(parts))

\* tokenizer.encode raises ValueError on a text that holds a special token
Rejected(s) == \E i \in 1..Len(s) : s[i] = EOT

\* tokenizer.encode: one token per symbol, "\n\n" being one token
RECURSIVE Encode(_)
Encode(s) ==
    IF s = <<>> THEN <<>>
    ELSE IF Len(s) >= 2 /\ s[1] = NL /\ s[2] = NL
    THEN <<NLNL>> \o Encode(SubSeq(s, 3, Len(s)))
    ELSE <<s[1]>> \o Encode(Tail(s))

\* tokenizer.decode
RECURSIVE Decode(_)
Decode(t) ==
    IF t = <<>> THEN <<>>
    ELSE (IF t[1] = NLNL THEN <<NL, NL>> ELSE <<t[1]>>) \o Decode(Tail(t))

TokenCount(s) == Len(Encode(s))

\* tokens[-n:] of Python: the last n for n > 0, everything for n = 0
LastTokens(t, n) ==
    IF n = 0 THEN t ELSE SubSeq(t, Len(t) - n + 1, Len(t))

\* _get_overlap_text(text, overlap_tokens)
GetOverlapText(text, overlap_tokens) ==
    LET tokens == Encode(text)
        overlap_text == Decode(LastTokens(tokens, overlap_tokens))
        sentences == SplitSentences(overlap_text, 1, <<>>)
    IN  IF Len(tokens) <= overlap_tokens THEN text
        ELSE IF Len(sentences) > 1
        THEN JoinSentences(SubSeq(sentences, 1, Len(sentences) - 1)) \o <<DOT>>
        ELSE overlap_text

\* _split_by_headings, line 94: r'^#{1,6}\s+(.+)$' on the stripped line. The
\* other three patterns need capital letters; the words of the model are
\* lower-case.
IsHeading(line) ==
    LET s == Strip(line) IN Len(s) >= 2 /\ s[1] = HASH /\ s[2].k = "w"

\* _split_by_headings, lines 103-121: the loop over the lines
RECURSIVE SplitByHeadingsLoop(_, _, _, _)
SplitByHeadingsLoop(lines, k, current_section, sections) ==
    IF k > Len(lines)
    THEN IF Strip(current_section.text) # <<>>
         THEN Append(sections, current_section)
         ELSE sections
    ELSE IF IsHeading(lines[k])
    THEN SplitByHeadingsLoop(lines, k + 1,
            [text |-> lines[k] \o <<NL>>, headings |-> <<Strip(lines[k])>>],
            IF Strip(current_section.text) # <<>>
            THEN Append(sections, current_section)
            ELSE sections)
    ELSE SplitByHeadingsLoop(lines, k + 1,
            [current_section EXCEPT !.text = @ \o lines[k] \o <<NL>>],
            sections)

\* _split_by_headings(text)
SplitByHeadings(text) ==
    SplitByHeadingsLoop(SplitLines(text, 1, <<>>), 1,
                        [text |-> <<>>, headings |-> <<>>], <<>>)

\* _split_large_section, lines 137-153: the loop over the paragraphs
RECURSIVE SplitLargeLoop(_, _, _, _, _)
SplitLargeLoop(paragraphs, k, current_chunk, chunks, size) ==
    IF k > Len(paragraphs)
    THEN IF Strip(current_chunk) # <<>>
         THEN Append(chunks, Strip(current_chunk))
         ELSE chunks
    ELSE IF Strip(paragraphs[k]) = <<>>
    THEN SplitLargeLoop(paragraphs, k + 1, current_chunk, chunks, size)
    ELSE LET test_chunk == IF current_chunk # <<>>
                           THEN current_chunk \o <<NL, NL>> \o paragraphs[k]
                           ELSE paragraphs[k]
         IN  IF TokenCount(test_chunk) > size /\ current_chunk # <<>>
             THEN SplitLargeLoop(paragraphs, k + 1, paragraphs[k],
                                 Append(chunks, Strip(current_chunk)), size)
             ELSE SplitLargeLoop(paragraphs, k + 1, test_chunk, chunks, size)

\* A splitter that discards a paragraph longer than the budget.
SplitLargeSectionDropping(text, size) ==
    LET all == SplitParagraphs(text, 1, <<>>)
        kept == SelectSeq(all, LAMBDA para : TokenCount(para) <= size)
    IN  SplitLargeLoop(kept, 1, <<>>, <<>>, size)

\* _split_large_section(text, headings), with self.chunk_size = size
SplitLargeSection(text, size) ==
    SplitLargeLoop(SplitParagraphs(text, 1, <<>>), 1, <<>>, <<>>, size)

\* A page number: page_data['page'], or None
PageNum(n) == [given |-> TRUE, n |-> n]
NoPageNum == [given |-> FALSE, n |-> 0]

\* `page_num or 1`
PageOrOne(page_num) ==
    IF page_num.given /\ page_num.n # 0 THEN page_num.n ELSE 1

\* metadata.get('document_id', 'unknown'): one document is chunked
DocumentId == "doc"

\* _create_chunk_data. own and pidx are not fields of the code's dict: own
\* keeps the text the unit had before overlap stitching, pidx the position
\* in page_content of the page it was cut from (0: no pages).
CreateChunkData(text, pidx, page_num, page_type, headings, section_id) ==
    [chunk_id |-> <<"chunk", DocumentId, PageOrOne(page_num), section_id>>,
     text |-> text,
     location |-> [page |-> page_num, type |-> page_type,
                   section |-> section_id],
     headings |-> headings,
     token_count |-> TokenCount(text),
     own |-> text, pidx |-> pidx]

\* _chunk_by_semantic_boundaries, lines 65-83: the units of section i
\* (counted from 0, as enumerate does)
SectionChunks(section, i, pidx, page_num, page_type, size) ==
    IF Strip(section.text) = <<>>
    THEN <<>>
    ELSE IF TokenCount(section.text) > size
    THEN LET sub_chunks == SplitLargeSection(section.text, size) IN
         [j \in 1..Len(sub_chunks) |->
            CreateChunkData(sub_chunks[j], pidx, page_num, page_type,
                            section.headings, <<i, j - 1>>)]
    ELSE <<CreateChunkData(section.text, pidx, page_num, page_type,
                           section.headings, <<i>>)>>

RECURSIVE Flatten(_)
Flatten(ss) == IF ss = <<>> THEN <<>> ELSE Head(ss) \o Flatten(Tail(ss))

\* _apply_overlap, lines 184-194. The loop changes each dict in place, so
\* chunks[i-1] is read after its own prefix was prepended: `done` holds the
\* units as they are when unit k is reached.
RECURSIVE ApplyOverlapLoop(_, _, _, _)
ApplyOverlapLoop(chunks, k, done, overlap) ==
    IF k > Len(chunks)
    THEN done
    ELSE IF k = 1
    THEN ApplyOverlapLoop(chunks, 2, <<chunks[1]>>, overlap)
    ELSE LET overlap_text == GetOverlapText(done[k - 1].text, overlap)
             text == overlap_text \o <<NL, NL>> \o chunks[k].text
         IN  ApplyOverlapLoop(chunks, k + 1,
                Append(done,
                   IF overlap_text # <<>>
                   THEN [chunks[k] EXCEPT !.text = text,
                                          !.token_count = TokenCount(text)]
                   ELSE chunks[k]),
                overlap)

\* _apply_overlap(chunks), with self.chunk_overlap = overlap
ApplyOverlap(chunks, overlap) ==
    IF Len(chunks) <= 1 THEN chunks
    ELSE ApplyOverlapLoop(chunks, 1, <<>>, overlap)

\* _chunk_by_semantic_boundaries before line 86: the units without overlap
SemanticUnits(text, pidx, page_num, page_type, size) ==
    LET sections == SplitByHeadings(text) IN
    Flatten([i \in 1..Len(sections) |->
               SectionChunks(sections[i], i - 1, pidx, page_num, page_type,
                             size)])

\* _chunk_by_semantic_boundaries(text, metadata, page_num, page_type)
ChunkBySemanticBoundaries(text, pidx, page_num, page_type, size, overlap) ==
    ApplyOverlap(SemanticUnits(text, pidx, page_num, page_type, size), overlap)

\* A page loop that stitches the overlap over the units of all pages.
ChunkByPagesStitched(pages, size, overlap) ==
    ApplyOverlap(
       Flatten([p \in 1..Len(pages) |->
                  IF Strip(pages[p].text) = <<>> THEN <<>>
                  ELSE SemanticUnits(pages[p].text, p, pages[p].page,
                                     pages[p].type, size)]),
       overlap)

\* _chunk_by_pages(page_content, metadata)
ChunkByPages(pages, size, overlap) ==
    Flatten([p \in 1..Len(pages) |->
               IF Strip(pages[p].text) = <<>> THEN <<>>
               ELSE ChunkBySemanticBoundaries(pages[p].text, p, pages[p].page,
                                              pages[p].type, size, overlap)])

\* _simple_chunk, lines 222-234: the windows from token i (counted from 0)
RECURSIVE SimpleChunkLoop(_, _, _, _)
SimpleChunkLoop(tokens, i, size, stride) ==
    IF i >= Len(tokens)
    THEN <<>>
    ELSE LET hi == IF i + size < Len(tokens) THEN i + size ELSE Len(tokens)
             chunk_tokens == SubSeq(tokens, i + 1, hi)
         IN  <<[chunk_id |-> <<"simple_chunk", DocumentId, i \div size>>,
                text |-> Decode(chunk_tokens),
                location |-> [page |-> PageNum(1), type |-> "text",
                              section |-> <<i \div size>>],
                headings |-> <<>>,
                token_count |-> Len(chunk_tokens),
                own |-> Decode(chunk_tokens), pidx |-> 0]>>
             \o SimpleChunkLoop(tokens, i + stride, size, stride)

\* _simple_chunk(text, metadata): range(0, n, stride) is empty for a
\* negative stride (and raises for stride 0, see SimpleChunkRaises)
SimpleChunk(text, size, overlap) ==
    IF size - overlap < 0 THEN <<>>
    ELSE SimpleChunkLoop(Encode(text), 0, size, size - overlap)

\* _simple_chunk raises: encode rejects the text, or range() gets step 0
SimpleChunkRaises(text, size, overlap) ==
    Rejected(text) \/ size - overlap = 0

(***************************************************************************)
(* The documents chunked. A document is a sequence of blocks (lines), each *)
(* joined to the next by a newline, by a blank line, or, in a document     *)
(* that comes with pages, by a page break. The parsers build `text` from   *)
(* the pages (services/parsing.py: total_text += text + "\n").             *)
(***************************************************************************)
Kinds == {"heading", "word", "long", "sentence", "special", "blank"}

\* The text of block b of the given kind; the words of block b are its own.
BlockText(kind, b) ==
    LET w(j) == W(MaxWords * b + j) IN
    CASE kind = "heading"  -> <<HASH, w(1)>>
      [] kind = "word"     -> <<w(1)>>
      [] kind = "long"     -> [j \in 1..MaxWords |-> w(j)]
      [] kind = "sentence" -> <<w(1), BANG, w(2)>>
      [] kind = "special"  -> <<w(1), EOT>>
      [] kind = "blank"    -> <<SP>>

Seps(paged) == IF paged THEN {"line", "para", "page"} ELSE {"line", "para"}

Docs ==
    UNION { { [kinds |-> ks, seps |-> ss, paged |-> paged] :
                ks \in [1..n -> Kinds],
                ss \in [1..(IF n = 0 THEN 0 ELSE n - 1) -> Seps(paged)] } :
            n \in 0..MaxBlocks, paged \in BOOLEAN }

SepText(sep) == IF sep = "line" THEN <<NL>> ELSE <<NL, NL>>

\* The texts of the pages of d: the blocks from block b on, `cur` being the
\* text of the page so far. A document without page breaks is one page.
RECURSIVE PageTexts(_, _, _)
PageTexts(d, b, cur) ==
    IF b > Len(d.kinds) THEN <<>>
    ELSE LET t == cur \o BlockText(d.kinds[b], b) IN
         IF b = Len(d.kinds) THEN <<t>>
         ELSE IF d.seps[b] = "page" THEN <<t>> \o PageTexts(d, b + 1, <<>>)
         ELSE PageTexts(d, b + 1, t \o SepText(d.seps[b]))

\* parsed_data['page_content'] (parsing.py): page numbers count from 1
PageContent(d) ==
    IF d.paged
    THEN LET ts == PageTexts(d, 1, <<>>) IN
         [p \in 1..Len(ts) |-> [page |-> PageNum(p), text |-> ts[p],
                                type |-> "text"]]
    ELSE <<>>

\* parsed_data['text']
Text(d) ==
    LET ts == PageTexts(d, 1, <<>>) IN
    IF d.paged THEN Flatten([p \in 1..Len(ts) |-> ts[p] \o <<NL>>])
    ELSE Flatten(ts)

\* settings.chunk_size, settings.chunk_overlap: the configurations tried
ChunkSizes == {MaxChunkSize - 1, MaxChunkSize}
ChunkOverlaps == 0..MaxOverlap

\* How the pages of page_content are numbered: from 1 as the parsers do,
\* from 0, or not at all (page_data.get('page', 1) then gives 1 each time).
Numberings(d) ==
    IF d.paged THEN {"counted", "from_zero", "missing"} ELSE {"counted"}

\* page_data.get('page', 1) of page p, line 37
PageNumber(p, numbering) ==
    CASE numbering = "counted"   -> PageNum(p)
      [] numbering = "from_zero" -> PageNum(p - 1)
      [] numbering = "missing"   -> PageNum(1)

\* metadata['page_content'] as given to chunk_text
Pages(d, numbering) ==
    [p \in 1..Len(PageContent(d)) |->
        [PageContent(d)[p] EXCEPT !.page = PageNumber(p, numbering)]]

NoResult == [call |-> "none", raised |-> FALSE, path |-> "none",
             chunks |-> <<>>, numbering |-> "counted"]

\* The heading-aware path raises when encode is given a rejected text: the
\* text of a section with content (line 70).
HeadingPathRaises(d) ==
    IF PageContent(d) # <<>>
    THEN \E p \in 1..Len(PageContent(d)) : Rejected(PageContent(d)[p].text)
    ELSE Rejected(Text(d))

\* chunk_text(text, metadata): what the call gives
ChunkTextResult(d, numbering, size, overlap) ==
    IF ~HeadingPathRaises(d)
    THEN IF PageContent(d) # <<>>
         THEN [call |-> "chunk_text", raised |-> FALSE, path |-> "pages",
               chunks |-> ChunkByPages(Pages(d, numbering), size, overlap),
               numbering |-> numbering]
         ELSE [call |-> "chunk_text", raised |-> FALSE, path |-> "semantic",
               chunks |-> ChunkBySemanticBoundaries(Text(d), 0, NoPageNum,
                                                    "text", size, overlap),
               numbering |-> numbering]
    ELSE IF SimpleChunkRaises(Text(d), size, overlap)
    THEN [call |-> "chunk_text", raised |-> TRUE, path |-> "simple",
          chunks |-> <<>>, numbering |-> numbering]
    ELSE [call |-> "chunk_text", raised |-> FALSE, path |-> "simple",
          chunks |-> SimpleChunk(Text(d), size, overlap),
          numbering |-> numbering]

ChunkInit ==
    /\ parsed_data \in Docs
    /\ chunk_size \in ChunkSizes
    /\ chunk_overlap \in ChunkOverlaps
    /\ result = NoResult

\* SemanticChunker.chunk_text(text, metadata)
ChunkText ==
    /\ result = NoResult
    /\ \E numbering \in Numberings(parsed_data) :
          result' = ChunkTextResult(parsed_data, numbering, chunk_size,
                                    chunk_overlap)
    /\ UNCHANGED <<parsed_data, chunk_size, chunk_overlap>>
    /\ UNCHANGED task_vars
    /\ UNCHANGED index_vars

    /\ UNCHANGED <<upload_vars, cite_vars>>
\* SemanticChunker._simple_chunk(text, metadata), called on its own
SimpleChunkAlone ==
    /\ result = NoResult
    /\ result' =
          IF SimpleChunkRaises(Text(parsed_data), chunk_size, chunk_overlap)
          THEN [call |-> "_simple_chunk", raised |-> TRUE, path |-> "simple",
                chunks |-> <<>>, numbering |-> "counted"]
          ELSE [call |-> "_simple_chunk", raised |-> FALSE,
                path |-> "simple",
                chunks |-> SimpleChunk(Text(parsed_data), chunk_size,
                                       chunk_overlap),
                numbering |-> "counted"]
    /\ UNCHANGED <<parsed_data, chunk_size, chunk_overlap>>
    /\ UNCHANGED task_vars
    /\ UNCHANGED index_vars

    /\ UNCHANGED <<upload_vars, cite_vars>>
ChunkNext == ChunkText \/ SimpleChunkAlone

(***************************************************************************)
(*                           THE UPLOAD ROUTE                              *)
(***************************************************************************)
\* Document ids: the k-th document row of the request gets id k.
DocIds == 1..MaxTasks
NoDocument == 0

\* No upload request is being handled.
UploadIdle ==
    /\ files = 0 /\ handler = "returned" /\ document = NoDocument
    /\ doc_status = [d \in DocIds |-> "ABSENT"]
    /\ submitted_for = [t \in TaskIds |-> NoDocument]
    /\ processed = [t \in TaskIds |-> NoDocument]

\* upload_documents is entered with some files (at least one, line 29).
UploadInit ==
    /\ files \in 1..MaxTasks
    /\ handler = "looping"
    /\ document = NoDocument
    /\ doc_status = [d \in DocIds |-> "ABSENT"]
    /\ submitted_for = [t \in TaskIds |-> NoDocument]
    /\ processed = [t \in TaskIds |-> NoDocument]

\* One iteration of `for file in files` (lines 37-154): the Document row is
\* committed PENDING and bound to the local variable `document` (line 62),
\* the closure process_doc is defined and submitted with
\* {"document_id": document.id} evaluated at the call (line 150).
\* submit_task has no suspension point, so `await submit_task(...)` does not
\* give control to the event loop.
UploadFile ==
    /\ handler = "looping"
    /\ next_id < files
    /\ SubmitTask
    /\ document' = next_id + 1
    /\ doc_status' = [doc_status EXCEPT ![next_id + 1] = "PENDING"]
    /\ submitted_for' = [submitted_for EXCEPT ![next_id + 1] = next_id + 1]
    /\ UNCHANGED <<files, handler, processed>>
    /\ UNCHANGED index_vars
    /\ UNCHANGED chunk_vars
    /\ UNCHANGED cite_vars

\* line 156: the loop is over, the handler returns and the event loop runs
\* the coroutines that were scheduled.
HandlerReturn ==
    /\ handler = "looping"
    /\ next_id = files
    /\ handler' = "returned"
    /\ UNCHANGED <<files, document, doc_status, submitted_for, processed>>
    /\ UNCHANGED task_vars
    /\ UNCHANGED index_vars
    /\ UNCHANGED chunk_vars
    /\ UNCHANGED cite_vars

\* _execute_task running process_doc (lines 75-146). process_doc has no
\* suspension point, so the coroutine runs from the acquire to the release
\* in one step. process_doc reads the variable `document` of the enclosing
\* function when it runs (lines 84-134): the closure holds the variable, not
\* the value it had when the closure was defined. The pipeline ends with
\* the document DONE and a result (lines 133-141).
ProcessDocOk(t, r) ==
    /\ handler = "returned"
    /\ coro[t] = "scheduled"
    /\ CanAcquire
    /\ processed' = [processed EXCEPT ![t] = document]
    /\ doc_status' = [doc_status EXCEPT ![document] = "DONE"]
    /\ pipeline' = [pipeline EXCEPT ![t] = [kind |-> "returned", value |-> r]]
    /\ tasks' = UpdateIfPresent(t, MarkCompleted(MarkRunning(tasks[t]), r))
    /\ sem' = Release(sem - 1)
    /\ coro' = [coro EXCEPT ![t] = "returned"]
    /\ UNCHANGED <<next_id, escaped, cancel_ret>>
    /\ UNCHANGED <<files, handler, document, submitted_for>>
    /\ UNCHANGED index_vars
    /\ UNCHANGED chunk_vars
    /\ UNCHANGED cite_vars

\* process_doc fails: the document is set ERROR and the exception is raised
\* again (lines 143-146), to be recorded by _execute_task.
ProcessDocFails(t, msg) ==
    /\ handler = "returned"
    /\ coro[t] = "scheduled"
    /\ CanAcquire
    /\ processed' = [processed EXCEPT ![t] = document]
    /\ doc_status' = [doc_status EXCEPT ![document] = "ERROR"]
    /\ pipeline' = [pipeline EXCEPT ![t] = [kind |-> "raised", value |-> msg]]
    /\ tasks' = UpdateIfPresent(t, MarkFailed(MarkRunning(tasks[t]), msg))
    /\ sem' = Release(sem - 1)
    /\ coro' = [coro EXCEPT ![t] = "returned"]
    /\ UNCHANGED <<next_id, escaped, cancel_ret>>
    /\ UNCHANGED <<files, handler, document, submitted_for>>
    /\ UNCHANGED index_vars
    /\ UNCHANGED chunk_vars
    /\ UNCHANGED cite_vars

UploadNext ==
    \/ UploadFile
    \/ HandlerReturn
    \/ \E t \in TaskIds, r \in Results : ProcessDocOk(t, r)
    \/ \E t \in TaskIds, msg \in Messages : ProcessDocFails(t, msg)

(***************************************************************************)
(*                        THE CITATION EXTRACTOR                           *)
(***************************************************************************)
\* Bounds: the length of the generated text and the number of retrieved
\* units.
MaxResponse == 6
MaxRetrieved == 2

\* The characters of a generated text: brackets and decimal digits. A
\* bracket or a digit outside a marker is ordinary text.
Digits == {"0", "1", "2"}
CiteChars == {"[", "]"} \cup Digits

IsDigit(c) == c \in Digits

DigitValue(c) == CASE c = "0" -> 0 [] c = "1" -> 1 [] c = "2" -> 2

\* int(match), line 151: decimal, leading zeros allowed
RECURSIVE ParseInt(_)
ParseInt(ds) ==
    IF ds = <<>> THEN 0
    ELSE ParseInt(SubSeq(ds, 1, Len(ds) - 1)) * 10 + DigitValue(ds[Len(ds)])

\* \d+ is greedy: the first position at or after j that holds no digit
RECURSIVE DigitsEnd(_, _)
DigitsEnd(s, j) ==
    IF j <= Len(s) /\ IsDigit(s[j]) THEN DigitsEnd(s, j + 1) ELSE j

\* re.findall(r'\[(\d+)\]', response), lines 146-147: the groups of the
\* non-overlapping matches, scanning from the left
RECURSIVE FindAll(_, _)
FindAll(s, i) ==
    IF i > Len(s) THEN <<>>
    ELSE IF s[i] = "["
         THEN LET e == DigitsEnd(s, i + 1) IN
              IF e > i + 1 /\ e <= Len(s) /\ s[e] = "]"
              THEN <<SubSeq(s, i + 1, e - 1)>> \o FindAll(s, e + 1)
              ELSE FindAll(s, i + 1)
         ELSE FindAll(s, i + 1)

\* A conversion that keeps the marker's number as the list index.
ChunkIndexOneBased(match) == ParseInt(match)

\* line 151: chunk_index = int(match) - 1
ChunkIndex(match) == ParseInt(match) - 1

\* A retrieved unit, as VectorIndex.search returns them. The text is kept
\* by its length only.
RetrievedChunk(i, text_len) ==
    [chunk_id |-> i, document_id |-> (i % 2) + 1, location |-> i,
     headings |-> <<>>, text_len |-> text_len]

\* lines 154-160: text[:200] + "..." when the text is longer than 200
Citation(chunk) ==
    [chunk_id |-> chunk.chunk_id, document_id |-> chunk.document_id,
     location |-> chunk.location, headings |-> chunk.headings,
     text_len |-> IF chunk.text_len > 200 THEN 200 ELSE chunk.text_len,
     ellipsis |-> chunk.text_len > 200]

\* the loop of lines 149-163; Python lists are 0-based, sequences 1-based
RECURSIVE ExtractLoop(_, _, _, _)
ExtractLoop(matches, k, chunks, out) ==
    IF k > Len(matches) THEN out
    ELSE LET chunk_index == ChunkIndex(matches[k]) IN
         IF 0 <= chunk_index /\ chunk_index < Len(chunks)
         THEN ExtractLoop(matches, k + 1, chunks,
                          Append(out, Citation(chunks[chunk_index + 1])))
         ELSE ExtractLoop(matches, k + 1, chunks, out)

\* extract_citations(response, retrieved_chunks)
ExtractCitationsResult(resp, chunks) ==
    ExtractLoop(FindAll(resp, 1), 1, chunks, <<>>)

NoCitations == [called |-> FALSE, value |-> <<>>]

Responses == UNION { [1..n -> CiteChars] : n \in 0..MaxResponse }

\* The first unit has a text of more than 200 characters, the others less.
RetrievedLists ==
    { [i \in 1..n |-> RetrievedChunk(i, IF i = 1 THEN 250 ELSE 150)] :
         n \in 0..MaxRetrieved }

CiteIdle ==
    /\ response = <<>> /\ retrieved_chunks = <<>> /\ citations = NoCitations

CiteInit ==
    /\ response \in Responses
    /\ retrieved_chunks \in RetrievedLists
    /\ citations = NoCitations

ExtractCitations ==
    /\ ~citations.called
    /\ citations' = [called |-> TRUE,
                     value |-> ExtractCitationsResult(response,
                                                      retrieved_chunks)]
    /\ UNCHANGED <<response, retrieved_chunks>>
    /\ UNCHANGED task_vars
    /\ UNCHANGED index_vars
    /\ UNCHANGED chunk_vars
    /\ UNCHANGED upload_vars

CiteNext == ExtractCitations

(***************************************************************************)
(*                          THE SPECIFICATIONS                             *)
(***************************************************************************)
\* No document is being chunked.
ChunkIdle ==
    /\ parsed_data = [kinds |-> <<>>, seps |-> <<>>, paged |-> FALSE]
    /\ chunk_size = MaxChunkSize /\ chunk_overlap = 0 /\ result = NoResult

IndexIdle ==
    /\ use_qdrant = FALSE /\ loaded = FALSE /\ index = <<>> /\ metadata = <<>>
    /\ index_file = NoFile /\ meta_file = NoFile /\ remote = NoRemote
    /\ first_dim = 0 /\ last = NoOp /\ faults = 0

TaskSpecInit == TaskInit /\ IndexIdle /\ ChunkIdle /\ UploadIdle /\ CiteIdle
TaskSpec == TaskSpecInit /\ [][TaskNext]_vars

\* The executor under the event loop's scheduling. asyncio runs every ready
\* coroutine and wakes the waiters of a semaphore when a permit comes back,
\* so a coroutine that can take a permit does; the pipeline functions are
\* taken to terminate, by returning or by raising.
TaskFairness ==
    \A t \in TaskIds :
       /\ WF_vars(Start(t))
       /\ WF_vars(\E r \in Results : FinishOk(t, r))
       /\ WF_vars(\E msg \in Messages : FinishFail(t, msg))

TaskLiveSpec == TaskSpecInit /\ [][TaskNext]_vars /\ TaskFairness

\* The executor with a database whose calls may raise.
TaskFaultSpec == TaskSpecInit /\ [][TaskFaultNext]_vars

IndexSpecInit == IndexInit /\ TaskInit /\ ChunkIdle /\ UploadIdle /\ CiteIdle
IndexSpec == IndexSpecInit /\ [][IndexNext]_vars

\* The local store alone: Qdrant is not configured (settings.qdrant_url is
\* None by default) and no search is made. A search changes nothing of the
\* collection (it only registers it, as create_collection does), and the
\* FAISS part of every operation runs before its Qdrant part and never reads
\* from it, so the collections and files reached are those of IndexSpec.
StoreNext ==
    \/ \E dim \in EmbeddingDims : CreateCollection(dim)
    \/ \E batch \in Batches : AddChunks(batch)
    \/ DeleteCollection
    \/ Return
    \/ Restart

StoreSpecInit ==
    IndexInit /\ use_qdrant = FALSE /\ TaskInit /\ ChunkIdle /\ UploadIdle
    /\ CiteIdle
StoreSpec == StoreSpecInit /\ [][StoreNext]_vars

\* Searching a collection that only grows: create, add and search, with or
\* without Qdrant. Delete and restart change what is stored, not how a
\* search of the stored units behaves. The collection is created with the
\* dimension of the embedder's model, as the upload pipeline does, and the
\* searches are made without a filter or with a one-document allow-list.
SearchFilters == {NoFilter, [given |-> TRUE, ids |-> {1}]}

SearchNext ==
    \/ CreateCollection(FaissDim)
    \/ \E batch \in Batches : AddChunks(batch)
    \/ \E q \in Queries, top_k \in 1..MaxTopK, f \in SearchFilters :
          Search(q, top_k, f)
    \/ Return

SearchSpecInit == IndexInit /\ TaskInit /\ ChunkIdle /\ UploadIdle /\ CiteIdle
SearchSpec == SearchSpecInit /\ [][SearchNext]_vars

\* The chunker alone.
ChunkSpecInit == ChunkInit /\ TaskInit /\ IndexIdle /\ UploadIdle /\ CiteIdle
ChunkSpec == ChunkSpecInit /\ [][ChunkNext]_vars

\* One upload request and the tasks it submits.
UploadSpecInit == UploadInit /\ TaskInit /\ IndexIdle /\ ChunkIdle /\ CiteIdle
UploadSpec == UploadSpecInit /\ [][UploadNext]_vars

\* The citation extractor alone.
CiteSpecInit == CiteInit /\ TaskInit /\ IndexIdle /\ ChunkIdle /\ UploadIdle
CiteSpec == CiteSpecInit /\ [][CiteNext]_vars

(***************************************************************************)
(*                      PROPERTIES OF THE TASK EXECUTOR                    *)
(***************************************************************************)
Running == { t \in TaskIds : Exists(t) /\ tasks[t].status = RUNNING }

\* The coroutines inside `async with self._semaphore`: each holds a permit.
Holders == { t \in TaskIds : coro[t] = "in_pipeline" }

\* C1: once a task's status is COMPLETED, FAILED or CANCELLED, no step of
\* submit_task, _execute_task or cancel_task changes it again.
C1_TerminalStatusIsFinal ==
    [][\A t \in TaskIds :
          (Exists(t) /\ tasks[t].status \in Terminal /\ tasks'[t] # NoTask)
             => tasks'[t].status = tasks[t].status]_vars

C14_SubmitReturnsPending ==
    [][/\ next_id' # next_id =>
             /\ tasks'[next_id'] = NewTask
             /\ tasks'[next_id'].status = PENDING
             /\ coro'[next_id'] = "scheduled"
             /\ pipeline'[next_id'].kind = "none"
       /\ \A t \in TaskIds :
             (coro'[t] = "in_pipeline" /\ coro[t] # "in_pipeline") =>
                /\ coro[t] = "scheduled"
                /\ sem > 0 /\ sem' = sem - 1]_vars

\* C14 witness: a task was submitted while both permits were out; it is
\* PENDING, its coroutine has not run.
C14_Witness ==
    /\ next_id = MaxConcurrent + 1
    /\ tasks[next_id] = NewTask /\ coro[next_id] = "scheduled"
    /\ Cardinality(Holders) = MaxConcurrent

\* C15: cancel_task on a PENDING or RUNNING task sets it CANCELLED and
\* returns true; on an unknown or terminal task it returns false and leaves
\* every row as it was.
C15_CancelTask ==
    [][cancel_ret' # cancel_ret =>
          LET t == cancel_ret'.id IN
          IF Exists(t) /\ tasks[t].status \in {PENDING, RUNNING}
          THEN /\ cancel_ret'.ret
               /\ tasks'[t].status = CANCELLED
               /\ \A u \in TaskIds \ {t} : tasks'[u] = tasks[u]
          ELSE /\ ~cancel_ret'.ret
               /\ tasks' = tasks]_vars

\* C15 witness: a RUNNING task was cancelled (true), after another cancel.
C15_Witness ==
    /\ cancel_ret.ret /\ cancel_ret.seq = 0 /\ cancel_ret.id # 0
    /\ coro[cancel_ret.id] = "in_pipeline"
    /\ tasks[cancel_ret.id].status = CANCELLED
    /\ tasks[cancel_ret.id].started_at

(***************************************************************************)
(*                      PROPERTIES OF THE VECTOR INDEX                     *)
(***************************************************************************)
Empty == <<<<>>, <<>>>>

\* C4: no two hits of a search result share a document_id.
C4_NoTwoHitsOfOneDocument ==
    last.op = "search" =>
       \A i, j \in 1..Len(last.hits) :
          i # j => last.hits[i].document_id # last.hits[j].document_id

\* C5: the hits of a search result are in non-increasing score order.
C5_ScoresNonIncreasing ==
    last.op = "search" =>
       \A i \in 1..(Len(last.hits) - 1) :
          last.hits[i].score >= last.hits[i + 1].score

\* C6: an add with an embedding whose length differs from the dimension the
\* collection's index was created with (_create_new_index) fails, and the
\* collection's vectors and metadata are what they were before the call.
C6_WrongDimensionIsRejected ==
    [][(Idle /\ last'.op = "add" /\ \E l \in last'.lens : l # FaissDim)
          => (~last'.ok /\ GetCollection' = GetCollection)]_vars

\* C6 witness: an add of a unit of another length has failed on a collection
\* that holds units.
C6_Witness ==
    /\ last.op = "add" /\ SmallDim \in last.lens /\ ~last.ok
    /\ loaded /\ Len(index) >= 1 /\ Len(metadata) = Len(index)

\* C7: a create with another dimension than the first create's is rejected,
\* and an add of well-formed units of the first create's dimension succeeds.
C7_FirstCreateFixesDimension ==
    /\ (last.op = "create" /\ last.dim # first_dim) => ~last.ok
    /\ (last.op = "add" /\ first_dim # 0 /\ last.lens = {first_dim}
           /\ last.complete) => last.ok

\* C8: a create leaves every stored unit in place, in the local collection
\* and in the Qdrant collection.
C8_CreateKeepsStoredUnits ==
    [][(Idle /\ last'.op = "create")
          => (/\ GetCollection' = GetCollection
              /\ remote.points \subseteq remote'.points)]_vars

\* C9: after a delete, looking the collection up again gives an empty one:
\* no vectors, no metadata, no hit for any query.
C9_DeleteLeavesNothing ==
    last.op = "delete" =>
       /\ GetCollection = Empty
       /\ \A q \in Queries, k \in 1..MaxTopK :
             FaissSearch(GetCollection, q, k, NoFilter) = {<<>>}

\* C10: when add has returned normally, loading the collection from its
\* files gives the vectors and metadata that are in memory.
C10_AddIsDurable ==
    (last.op = "add" /\ last.ok) => LoadOrCreate = <<index, metadata>>

\* C11: when writing the index file or the metadata file failed during an
\* add, the add fails: the error reaches the caller of add_chunks.
C11_SaveFailureIsSurfaced ==
    (last.op = "add" /\ last.save \notin {"none", "saved"}) => ~last.ok

\* C12: when Qdrant is not configured, or its search call raises, the search
\* returns the hits of the local index alone, same content, same order.
C12_RemoteFailureKeepsLocalHits ==
    (last.op = "search" /\ (~use_qdrant \/ last.down))
       => last.hits = last.local

\* C12 witness: the Qdrant call of a search raised although Qdrant holds a
\* unit the local hits lack, and the local hit came back alone.
C12_Witness ==
    /\ last.op = "search" /\ use_qdrant /\ last.down
    /\ Len(last.local) = 1 /\ last.top_k > 1 /\ last.hits = last.local
    /\ \E p \in remote.points : p.id # last.local[1].chunk_id

\* C13: when a document filter is given to a search, the empty list
\* included, every hit's document_id is in the allow-list.
C13_HitsAreInTheAllowList ==
    (last.op = "search" /\ last.filter.given)
       => \A i \in 1..Len(last.hits) :
             last.hits[i].document_id \in last.filter.ids

\* The embedding the embedder gave the unit of this id.
EmbeddingOf(id) == (CHOOSE c \in Chunks : c.chunk_id = id).embedding

\* C22: the vector stored at position i is the vector of the unit whose
\* metadata is at position i, and every hit of the local search carries the
\* score of the vector of the unit it names. (A vector past the end of the
\* metadata is skipped by the search and is not counted here.)
C22_VectorsAndMetadataAligned ==
    /\ \A i \in 1..Len(metadata) :
          i <= Len(index) =>
             index[i] = NormalizeL2(EmbeddingOf(metadata[i].chunk_id).vec)
    /\ last.op = "search" =>
          \A i \in 1..Len(last.local) :
             last.local[i].score =
                Dot(NormalizeL2(EmbeddingOf(last.local[i].chunk_id).vec),
                    NormalizeL2(last.q.vec))

StoredIds == { GetCollection[2][i].chunk_id : i \in 1..Len(GetCollection[2]) }

\* C23: adding again units whose ids are all stored already (the same input
\* ingested a second time) leaves the number of stored units as it was.
C23_ReingestionIsIdempotent ==
    [][\A batch \in Batches :
          (/\ batch # <<>>
           /\ \A i, j \in 1..Len(batch) :
                 i # j => batch[i].chunk_id # batch[j].chunk_id
           /\ \A i \in 1..Len(batch) : batch[i].chunk_id \in StoredIds
           /\ AddChunks(batch)
           /\ last'.ok)
             => /\ Len(GetCollection'[1]) = Len(GetCollection[1])
                /\ Len(GetCollection'[2]) = Len(GetCollection[2])]_vars

\* C24: a hit of the local search has the highest score of the stored units
\* of its document: no position holding that document_id scores higher.
C24_HitIsBestOfItsDocument ==
    last.op = "search" =>
       \A h \in 1..Len(last.local) :
          \A i \in 1..Min(Len(index), Len(metadata)) :
             metadata[i].document_id = last.local[h].document_id
                => Dot(index[i], NormalizeL2(last.q.vec)) <= last.local[h].score

\* C24 witness: the collection holds a document's two units, one scoring
\* higher than the other, and the search returned the higher one.
C24_Witness ==
    /\ last.op = "search" /\ Len(last.local) >= 1
    /\ \E i \in 1..Min(Len(index), Len(metadata)) :
          /\ metadata[i].document_id = last.local[1].document_id
          /\ Dot(index[i], NormalizeL2(last.q.vec)) < last.local[1].score

\* The documents stored in the collection that pass the filter.
EligibleDocuments(f) ==
    { metadata[i].document_id :
        i \in { j \in 1..Len(metadata) :
                  ~f.given \/ metadata[j].document_id \in f.ids } }

\* C30: the local search returns min(top_k, D) hits, D the number of stored
\* documents that pass the filter. (Stated for a query of the index's
\* dimension, an index whose metadata is complete, and a filter that is not
\* the empty list.)
C30_OneHitPerEligibleDocument ==
    (/\ last.op = "search"
     /\ last.q.len = FaissDim
     /\ Len(index) = Len(metadata)
     /\ last.filter.given => last.filter.ids # {})
       => Len(last.local) =
             Min(last.top_k, Cardinality(EligibleDocuments(last.filter)))

(***************************************************************************)
(*                        PROPERTIES OF THE CHUNKER                        *)
(***************************************************************************)
\* chunk_text returned units.
Chunked == result.call = "chunk_text" /\ ~result.raised

\* chunk_text returned the units of the heading-aware path.
HeadingAware == Chunked /\ result.path \in {"pages", "semantic"}

Suffixes(s) == { SubSeq(s, i, Len(s)) : i \in 1..(Len(s) + 1) }

Contains(s, sub) ==
    \E i \in 0..(Len(s) - Len(sub)) : SubSeq(s, i + 1, i + Len(sub)) = sub

WordsOf(s) == { s[i] : i \in { j \in 1..Len(s) : s[j].k = "w" } }

\* The paragraphs of a document: the blocks joined by single newlines, a
\* heading line starting a new one. `cur` is the paragraph so far.
RECURSIVE ParagraphsFrom(_, _, _)
ParagraphsFrom(d, b, cur) ==
    IF b > Len(d.kinds) THEN <<>>
    ELSE LET t == cur \o BlockText(d.kinds[b], b) IN
         IF b = Len(d.kinds) THEN <<t>>
         ELSE IF d.seps[b] = "line" /\ d.kinds[b + 1] # "heading"
         THEN ParagraphsFrom(d, b + 1, t \o <<NL>>)
         ELSE <<t>> \o ParagraphsFrom(d, b + 1, <<>>)

\* The non-blank paragraphs, without the white space around them.
InputParagraphs(d) ==
    LET all == ParagraphsFrom(d, 1, <<>>)
        kept == SelectSeq(all, LAMBDA para : Strip(para) # <<>>)
    IN  [i \in 1..Len(kept) |-> Strip(kept[i])]

\* C16: every unit chunk_text emits has at most chunk_size tokens before
\* overlap stitching and at most chunk_size + chunk_overlap tokens after it.
C16_TokenBudget ==
    Chunked =>
       \A i \in 1..Len(result.chunks) :
          /\ TokenCount(result.chunks[i].own) <= chunk_size
          /\ result.chunks[i].token_count <= chunk_size + chunk_overlap

\* C17: every unit after the first of a page (of the document, without
\* pages) has as its text a suffix of the previous unit's text before
\* stitching, of at most chunk_overlap tokens, then (after the separating
\* blank line, if any) its own text.
C17_OverlapIsSuffixOfPrevious ==
    HeadingAware =>
       \A i \in 2..Len(result.chunks) :
          LET prev == result.chunks[i - 1]
              unit == result.chunks[i]
          IN  prev.pidx = unit.pidx =>
                 \E s \in Suffixes(prev.own) :
                    /\ TokenCount(s) <= chunk_overlap
                    /\ unit.text \in {s \o unit.own, s \o <<NL, NL>> \o unit.own}

\* C18: with pages, the words of every unit (prefix included) are words of
\* one page, and the units of a page come before those of the later pages.
C18_UnitsStayInTheirPage ==
    (Chunked /\ result.path = "pages") =>
       LET pages == PageContent(parsed_data) IN
       /\ \A i \in 1..Len(result.chunks) :
             /\ result.chunks[i].pidx \in 1..Len(pages)
             /\ WordsOf(result.chunks[i].text) # {}
             /\ WordsOf(result.chunks[i].text)
                   \subseteq WordsOf(pages[result.chunks[i].pidx].text)
       /\ \A i, j \in 1..Len(result.chunks) :
             i < j => result.chunks[i].pidx <= result.chunks[j].pidx

\* C18 witness: two pages, the first cut into two units (the second with
\* its overlap prefix), the second page giving a unit without prefix.
C18_Witness ==
    /\ Chunked /\ result.path = "pages" /\ chunk_overlap > 0
    /\ Len(result.chunks) = 3
    /\ result.chunks[1].pidx = 1 /\ result.chunks[2].pidx = 1
    /\ result.chunks[2].text # result.chunks[2].own
    /\ result.chunks[3].pidx = 2
    /\ result.chunks[3].text = result.chunks[3].own

\* C19: chunk_text never raises.
C19_ChunkTextNeverRaises ==
    result.call = "chunk_text" => ~result.raised

\* C20: every non-blank paragraph of the input is found whole in the text
\* before stitching of exactly one unit, and the paragraphs are found in the
\* units in the order they have in the input.
C20_NoParagraphIsDropped ==
    HeadingAware =>
       LET paras == InputParagraphs(parsed_data)
           at(k) == { i \in 1..Len(result.chunks) :
                        Contains(result.chunks[i].own, paras[k]) }
       IN  /\ \A k \in 1..Len(paras) : Cardinality(at(k)) = 1
           /\ \A k \in 1..(Len(paras) - 1) :
                 \A i \in at(k), j \in at(k + 1) : i <= j

\* C20 witness: a section over the budget was split at its paragraphs, one
\* of them longer than chunk_size, and that one is a unit of its own.
C20_Witness ==
    /\ HeadingAware
    /\ Len(InputParagraphs(parsed_data)) >= 2
    /\ \E i \in 1..Len(result.chunks) :
          /\ Len(result.chunks[i].location.section) = 2
          /\ TokenCount(result.chunks[i].own) > chunk_size
          /\ \E k \in 1..Len(InputParagraphs(parsed_data)) :
                InputParagraphs(parsed_data)[k] = result.chunks[i].own

\* C28: the ids of the units one chunker call emits are pairwise distinct,
\* in the heading-aware path, whatever the page numbers, and in the
\* fixed-size fallback.
C28_UnitIdsAreDistinct ==
    ~result.raised =>
       \A i, j \in 1..Len(result.chunks) :
          i # j => result.chunks[i].chunk_id # result.chunks[j].chunk_id

(***************************************************************************)
(*                 MORE PROPERTIES OF THE TASK EXECUTOR                    *)
(***************************************************************************)
\* C27: in every row, completed_at is set exactly when the status is
\* COMPLETED, FAILED or CANCELLED, error is set only when FAILED, result is
\* set only when COMPLETED, and started_at is set whenever RUNNING.
C27_RecordIsConsistent ==
    \A t \in TaskIds :
       Exists(t) =>
          /\ tasks[t].completed_at <=> tasks[t].status \in Terminal
          /\ tasks[t].error # None => tasks[t].status = FAILED
          /\ tasks[t].result # None => tasks[t].status = COMPLETED
          /\ tasks[t].status = RUNNING => tasks[t].started_at

\* C26: the free permits and the coroutines inside `async with` add up to
\* the cap, whatever way the coroutines that left took: a result, a pipeline
\* exception, a missing row, a database failure while recording.
C26_PermitsAddUp ==
    /\ sem + Cardinality(Holders) = MaxConcurrent
    /\ \A t \in TaskIds : coro[t] = "returned" => t \notin Holders

\* C26 witness: every permit is back after one coroutine ended with the
\* exception of a failed recording, one recorded a pipeline exception and
\* one found no row to update.
C26_Witness ==
    /\ sem = MaxConcurrent
    /\ \A t \in TaskIds : coro[t] = "returned"
    /\ \E t, u, v \in TaskIds :
          /\ t \in escaped
          /\ u \notin escaped /\ pipeline[u].kind = "raised" /\ Exists(u)
          /\ tasks[u].status = FAILED
          /\ v \notin escaped /\ pipeline[v].kind = "returned" /\ ~Exists(v)

\* The coroutine of task t has ended and its row, if it is still there, is
\* COMPLETED, FAILED or CANCELLED.
Settled(t) ==
    /\ coro[t] = "returned"
    /\ Exists(t) => tasks[t].status \in Terminal

C29_TaskProcessesItsDocument ==
    \A t \in TaskIds :
       processed[t] # NoDocument => processed[t] = submitted_for[t]

(***************************************************************************)
(*                 PROPERTIES OF THE CITATION EXTRACTOR                    *)
(***************************************************************************)
\* s[i..j] is a marker: an opening bracket, one or more digits, a closing
\* bracket.
IsMarker(s, i, j) ==
    /\ s[i] = "[" /\ s[j] = "]" /\ j > i + 1
    /\ \A k \in (i + 1)..(j - 1) : IsDigit(s[k])

MarkerEnd(s, i) == CHOOSE j \in 1..Len(s) : IsMarker(s, i, j)

Pow10(n) == IF n = 0 THEN 1 ELSE IF n = 1 THEN 10 ELSE IF n = 2 THEN 100
            ELSE IF n = 3 THEN 1000 ELSE IF n = 4 THEN 10000 ELSE 100000

\* The digits s[k..j-1], each times the power of ten of its place.
RECURSIVE PlaceSum(_, _, _)
PlaceSum(s, k, j) ==
    IF k >= j THEN 0
    ELSE DigitValue(s[k]) * Pow10(j - 1 - k) + PlaceSum(s, k + 1, j)

\* The number a marker that starts at i shows.
MarkerNumber(s, i) == PlaceSum(s, i + 1, MarkerEnd(s, i))

\* Where the markers with a number in 1..n start.
ValidMarkers(s, n) ==
    { i \in 1..Len(s) :
         /\ \E j \in 1..Len(s) : IsMarker(s, i, j)
         /\ MarkerNumber(s, i) \in 1..n }

\* C21: the citations are those of the markers [n] with 1 <= n <= number of
\* retrieved units, in order of appearance, repeated when the marker is,
\* each resolved to the n-th retrieved unit; the other markers give nothing.
C21_CitationsFollowTheMarkers ==
    citations.called =>
       LET V == ValidMarkers(response, Len(retrieved_chunks))
           out == citations.value
       IN  /\ Len(out) = Cardinality(V)
           /\ \A i \in V :
                 LET k == Cardinality({ x \in V : x <= i })
                     unit == retrieved_chunks[MarkerNumber(response, i)]
                 IN  /\ out[k].chunk_id = unit.chunk_id
                     /\ out[k].document_id = unit.document_id
                     /\ out[k].location = unit.location
                     /\ out[k].headings = unit.headings

\* C21 witness: the text "[2][1]" with two retrieved units: the second unit
\* is cited first.
C21_Witness ==
    /\ citations.called
    /\ Len(retrieved_chunks) = 2
    /\ Len(citations.value) = 2
    /\ citations.value[1].chunk_id = 2
    /\ citations.value[2].chunk_id = 1

====
